---------------------------- MODULE Spec2Model ----------------------------
(***************************************************************************)
(* Model of the cart eligibility evaluator                                 *)
(* (src/src/eligibility.service.js, with isObject of src/unnamed/part_001).*)
(*                                                                         *)
(* JavaScript values are tagged records of one shape:                      *)
(*   t    : "undefined" | "null" | "boolean" | "number" | "string"         *)
(*          | "date" | "array" | "object"                                  *)
(*   n    : the number, the boolean as 0/1, or the date's epoch millis     *)
(*   s    : the string's code units, a sequence of one-character strings   *)
(*   keys : an object's own keys in insertion order (each a string)        *)
(*   kids : an array's elements, or an object's values (kids[i] is the     *)
(*          value of keys[i])                                              *)
(* Numbers are the naturals plus NaN (as the result of a conversion).      *)
(***************************************************************************)
EXTENDS Integers, Sequences, FiniteSets, TLC

VARIABLES cart, criteria, pc, outcome

vars == <<cart, criteria, pc, outcome>>

(***************************************************************************)
(* Bounds of the explored inputs.                                          *)
(***************************************************************************)
MaxNum == 2
MaxMillis == 1
MaxItems == 2

---------------------------------------------------------------------------
(* Values *)

Val(t, n, s, keys, kids) == [t |-> t, n |-> n, s |-> s, keys |-> keys, kids |-> kids]

Undefined == Val("undefined", 0, <<>>, <<>>, <<>>)
Null == Val("null", 0, <<>>, <<>>, <<>>)
Bool(b) == Val("boolean", IF b THEN 1 ELSE 0, <<>>, <<>>, <<>>)
Num(n) == Val("number", n, <<>>, <<>>, <<>>)
Str(s) == Val("string", 0, s, <<>>, <<>>)
Date(ms) == Val("date", ms, <<>>, <<>>, <<>>)
Arr(kids) == Val("array", 0, <<>>, <<>>, kids)
Obj(keys, kids) == Val("object", 0, <<>>, keys, kids)

(* Strings used as keys, operator names and values. *)
sEmpty == <<>>
sGt == <<"g", "t">>
sLt == <<"l", "t">>
sGte == <<"g", "t", "e">>
sLte == <<"l", "t", "e">>
sIn == <<"i", "n">>
sAnd == <<"a", "n", "d">>
sOr == <<"o", "r">>
sFoo == <<"f", "o", "o">>
sConstructor == <<"c", "o", "n", "s", "t", "r", "u", "c", "t", "o", "r">>
sHasOwnProperty == <<"h", "a", "s", "O", "w", "n", "P", "r", "o", "p", "e", "r", "t", "y">>
sAge == <<"a", "g", "e">>
sName == <<"n", "a", "m", "e">>
sUser == <<"u", "s", "e", "r">>
sItems == <<"i", "t", "e", "m", "s">>
sQty == <<"q", "t", "y">>
sRed == <<"r", "e", "d">>
sBlue == <<"b", "l", "u", "e">>
sOne == <<"1">>
sDot == <<".">>
sObjectObject == <<"[", "o", "b", "j", "e", "c", "t", " ", "O", "b", "j", "e", "c", "t", "]">>

(* The code units that occur, in ascending order of their UTF-16 value. *)
Alphabet ==
  <<" ", ",", ".", "0", "1", "2", "3", "4", "5", "6", "7", "8", "9",
    "O", "P", "[", "]",
    "a", "b", "c", "d", "e", "f", "g", "h", "i", "j", "k", "l", "m",
    "n", "o", "p", "q", "r", "s", "t", "u", "v", "w", "x", "y", "z">>

CodeUnit(c) == CHOOSE i \in 1..Len(Alphabet) : Alphabet[i] = c

Digits == {"0", "1", "2", "3", "4", "5", "6", "7", "8", "9"}

DigitValue(c) == CodeUnit(c) - CodeUnit("0")

DigitOf(d) == Alphabet[CodeUnit("0") + d]

(* A number that may be NaN. *)
NaN == [nan |-> TRUE, v |-> 0]
Finite(n) == [nan |-> FALSE, v |-> n]


---------------------------------------------------------------------------
(* Conversions of the language that the evaluator's operators rely on. *)

(* The null check left out: typeof null is 'object' too. *)
isObject_typeofOnly(value) == value.t \in {"null", "date", "array", "object"}

(* typeof value === 'object' && value !== null *)
isObject(value) == value.t \in {"date", "array", "object"}

(* Array.isArray(value) *)
IsArray(value) == value.t = "array"

(* value instanceof Date *)
IsDate(value) == value.t = "date"

RECURSIVE DecimalValue(_)
DecimalValue(s) ==
  IF s = <<>> THEN 0
  ELSE 10 * DecimalValue(SubSeq(s, 1, Len(s) - 1)) + DigitValue(s[Len(s)])

(* ToNumber of a string: the empty string is 0, a run of decimal digits is *)
(* its value, every other string that occurs here is NaN.                  *)
StringToNumber(s) ==
  IF s = <<>> THEN Finite(0)
  ELSE IF \A i \in 1..Len(s) : s[i] \in Digits THEN Finite(DecimalValue(s))
  ELSE NaN

RECURSIVE NumberToString(_)
NumberToString(n) ==
  IF n < 10 THEN <<DigitOf(n)>>
  ELSE NumberToString(n \div 10) \o <<DigitOf(n % 10)>>

(* ToNumber of a primitive. *)
ToNumber(p) ==
  CASE p.t = "undefined" -> NaN
    [] p.t = "null" -> Finite(0)
    [] p.t = "boolean" -> Finite(p.n)
    [] p.t = "number" -> Finite(p.n)
    [] p.t = "string" -> StringToNumber(p.s)

(* a < b on strings: by code units, a proper prefix first. *)
RECURSIVE StringLess(_, _)
StringLess(a, b) ==
  IF b = <<>> THEN FALSE
  ELSE IF a = <<>> THEN TRUE
  ELSE IF a[1] # b[1] THEN CodeUnit(a[1]) < CodeUnit(b[1])
  ELSE StringLess(Tail(a), Tail(b))

(* Array.prototype.join with ",": null and undefined give the empty string, *)
(* a nested array is joined the same way, a plain object gives              *)
(* "[object Object]".                                                       *)
RECURSIVE ToStringValue(_), Join(_)
ToStringValue(v) ==
  CASE v.t \in {"undefined", "null"} -> <<>>
    [] v.t = "number" -> NumberToString(v.n)
    [] v.t = "boolean" -> IF v.n = 1 THEN <<"t", "r", "u", "e">> ELSE <<"f", "a", "l", "s", "e">>
    [] v.t = "string" -> v.s
    [] v.t = "array" -> Join(v.kids)
    [] v.t = "object" -> sObjectObject
Join(kids) ==
  IF kids = <<>> THEN <<>>
  ELSE IF Len(kids) = 1 THEN ToStringValue(kids[1])
  ELSE ToStringValue(kids[1]) \o <<",">> \o Join(Tail(kids))

(* ToPrimitive with hint number: a date gives its millis, an array its   *)
(* join, a plain object "[object Object]".                               *)
ToPrimitive(v) ==
  CASE v.t = "date" -> Num(v.n)
    [] v.t = "array" -> Str(Join(v.kids))
    [] v.t = "object" -> Str(sObjectObject)
    [] OTHER -> v

(* x < y of the language, on primitives; undefined (FALSE here) when a side is NaN. *)
LessThan(x, y) ==
  LET px == ToPrimitive(x)
      py == ToPrimitive(y)
  IN IF px.t = "string" /\ py.t = "string" THEN StringLess(px.s, py.s)
     ELSE LET nx == ToNumber(px)
              ny == ToNumber(py)
          IN ~nx.nan /\ ~ny.nan /\ nx.v < ny.v

(* Whether x and y can be ordered at all (neither converts to NaN). *)
Comparable(x, y) ==
  LET px == ToPrimitive(x)
      py == ToPrimitive(y)
  IN (px.t = "string" /\ py.t = "string") \/ (~ToNumber(px).nan /\ ~ToNumber(py).nan)

(* a == b of the language, for two values that are not objects. *)
RECURSIVE LooseEquals(_, _)
LooseEquals(a, b) ==
  IF a.t = b.t THEN a = b
  ELSE IF a.t \in {"undefined", "null"} \/ b.t \in {"undefined", "null"}
    THEN a.t \in {"undefined", "null"} /\ b.t \in {"undefined", "null"}
  ELSE IF a.t = "boolean" THEN LooseEquals(Num(a.n), b)
  ELSE IF b.t = "boolean" THEN LooseEquals(a, Num(b.n))
  ELSE LET na == ToNumber(a)
           nb == ToNumber(b)
       IN ~na.nan /\ ~nb.nan /\ na.v = nb.v

(* Array.prototype.includes: SameValueZero, which on these values is equality *)
(* of type and value; an object is never the same as a primitive.             *)
Includes(b, a) == \E i \in 1..Len(b.kids) : b.kids[i] = a

(* value[key], own properties only: an array's index, a string's code unit, *)
(* an object's key; a date has no own property.                             *)
IndexKeys(n) == [i \in 1..n |-> NumberToString(i - 1)]

OwnKeys(v) ==
  CASE v.t = "object" -> v.keys
    [] v.t = "array" -> IndexKeys(Len(v.kids))
    [] v.t = "string" -> IndexKeys(Len(v.s))
    [] OTHER -> <<>>

OwnValue(v, i) ==
  CASE v.t = "string" -> Str(<<v.s[i]>>)
    [] OTHER -> v.kids[i]

Get(v, key) ==
  LET keys == OwnKeys(v)
  IN IF \E i \in 1..Len(keys) : keys[i] = key
     THEN OwnValue(v, CHOOSE i \in 1..Len(keys) : keys[i] = key)
     ELSE Undefined

(* Object.entries(v): <<key, value>> pairs in property order. *)
Entries(v) == [i \in 1..Len(OwnKeys(v)) |-> <<OwnKeys(v)[i], OwnValue(v, i)>>]

(* String.prototype.split('.') *)
RECURSIVE SplitFrom(_, _)
SplitFrom(s, acc) ==
  IF s = <<>> THEN <<acc>>
  ELSE IF s[1] = "." THEN <<acc>> \o SplitFrom(Tail(s), <<>>)
  ELSE SplitFrom(Tail(s), Append(acc, s[1]))

Split(s) == SplitFrom(s, <<>>)

(* No flattening at all. *)
Flat_none(kids) == kids

(* Array.prototype.flat(): one level. *)
RECURSIVE Flat(_)
Flat(kids) ==
  IF kids = <<>> THEN <<>>
  ELSE (IF IsArray(kids[1]) THEN kids[1].kids ELSE <<kids[1]>>) \o Flat(Tail(kids))

---------------------------------------------------------------------------
(* The evaluator *)

(* How a call ends: it returns a boolean, or it throws an error with a     *)
(* name, a message and the operator the message is about.                  *)
Return(b) == [kind |-> "return", val |-> b, name |-> "", message |-> "", about |-> <<>>]

Throw(name, message, about) ==
  [kind |-> "throw", val |-> FALSE, name |-> name, message |-> message, about |-> about]

Pending == [kind |-> "pending", val |-> FALSE, name |-> "", message |-> "", about |-> <<>>]

(* new InvalidCriteriaError(message): this.name = 'InvalidCriteriaError' *)
InvalidCriteriaError(message, about) == Throw("InvalidCriteriaError", message, about)

(* What the language raises for Object.entries(null), or for a call of an *)
(* inherited method without a receiver.                                   *)
TypeError == Throw("TypeError", "Cannot convert undefined or null to object", <<>>)

(* Array.prototype.every over the callback's results, in order: the first *)
(* result that is not true ends the loop (a false is returned, an error   *)
(* propagates).                                                           *)
Every(results) ==
  IF \E i \in 1..Len(results) : results[i] # Return(TRUE)
  THEN results[CHOOSE i \in 1..Len(results) :
                 /\ results[i] # Return(TRUE)
                 /\ \A j \in 1..(i - 1) : results[j] = Return(TRUE)]
  ELSE Return(TRUE)

(* Array.prototype.some: the first result that is not false ends the loop. *)
Some(results) ==
  IF \E i \in 1..Len(results) : results[i] # Return(FALSE)
  THEN results[CHOOSE i \in 1..Len(results) :
                 /\ results[i] # Return(FALSE)
                 /\ \A j \in 1..(i - 1) : results[j] = Return(FALSE)]
  ELSE Return(FALSE)

(* The keys of this.operations. *)
operations == {sGt, sLt, sGte, sLte, sIn, sAnd, sOr}

(* Names this.operations inherits from Object.prototype: a lookup of one  *)
(* of them finds a function too.                                          *)
InheritedNames == {sConstructor, sHasOwnProperty}

(* The comparison functions handed to _compareValues. *)
Apply(compareFn, x, y) ==
  CASE compareFn = ">" -> LessThan(y, x)
    [] compareFn = "<" -> LessThan(x, y)
    [] compareFn = ">=" -> Comparable(x, y) /\ ~LessThan(x, y)
    [] compareFn = "<=" -> Comparable(x, y) /\ ~LessThan(y, x)

_comparePrimitiveValues(a, b) ==
  IF IsDate(a) /\ IsDate(b) THEN a.n = b.n
  ELSE LooseEquals(a, b)

_compareValues(a, b, compareFn) ==
  IF IsDate(a) /\ IsDate(b) THEN Apply(compareFn, Num(a.n), Num(b.n))
  ELSE Apply(compareFn, a, b)

RECURSIVE _evaluateCondition(_, _), _evaluateOperation(_, _, _),
          _evaluateLogicalOperation(_, _, _), Operation(_, _, _)

(* The check of the operand left out: whatever it is, its entries are used. *)
_evaluateLogicalOperation_unchecked(logicalOp, value, conditions) ==
  LET entries == Entries(conditions)
      results == [i \in 1..Len(entries) |->
                    _evaluateOperation(entries[i][1], value, entries[i][2])]
  IN CASE logicalOp = sAnd -> Every(results)
       [] logicalOp = sOr -> Some(results)
       [] OTHER -> Return(FALSE)

(* 'every' and 'some' exchanged in the table of logical operations. *)
_evaluateLogicalOperation_swapped(logicalOp, value, conditions) ==
  IF ~isObject(conditions)
  THEN InvalidCriteriaError("Conditions for logical operation must be an object", logicalOp)
  ELSE LET entries == Entries(conditions)
           results == [i \in 1..Len(entries) |->
                         _evaluateOperation(entries[i][1], value, entries[i][2])]
       IN CASE logicalOp = sAnd -> Some(results)
            [] logicalOp = sOr -> Every(results)
            [] OTHER -> Return(FALSE)

_evaluateLogicalOperation(logicalOp, value, conditions) ==
  IF ~isObject(conditions)
  THEN InvalidCriteriaError("Conditions for logical operation must be an object", logicalOp)
  ELSE LET entries == Entries(conditions)
           results == [i \in 1..Len(entries) |->
                         _evaluateOperation(entries[i][1], value, entries[i][2])]
       IN CASE logicalOp = sAnd -> Every(results)
            [] logicalOp = sOr -> Some(results)
            [] OTHER -> Return(FALSE)

(* The functions of this.operations, by key. *)
Operation(op, a, b) ==
  CASE op = sGt -> Return(_compareValues(a, b, ">"))
    [] op = sLt -> Return(_compareValues(a, b, "<"))
    [] op = sGte -> Return(_compareValues(a, b, ">="))
    [] op = sLte -> Return(_compareValues(a, b, "<="))
    [] op = sIn -> Return(IsArray(b) /\ Includes(b, a))
    [] op = sAnd -> _evaluateLogicalOperation(sAnd, a, b)
    [] op = sOr -> _evaluateLogicalOperation(sOr, a, b)

(* An operator that is not found counts as not holding instead of failing. *)
_evaluateOperation_lenient(op, value, operand) ==
  IF op \in operations THEN Operation(op, value, operand)
  ELSE IF op = sConstructor THEN Return(TRUE)
  ELSE IF op = sHasOwnProperty THEN TypeError
  ELSE Return(FALSE)

(* this.operations[op] finds an own function, or one inherited from       *)
(* Object.prototype, or nothing. Called without a receiver, the inherited *)
(* constructor returns an object (truthy for the loop that called) and    *)
(* the inherited hasOwnProperty raises a TypeError.                       *)
_evaluateOperation(op, value, operand) ==
  IF op \in operations THEN Operation(op, value, operand)
  ELSE IF op = sConstructor THEN Return(TRUE)
  ELSE IF op = sHasOwnProperty THEN TypeError
  ELSE InvalidCriteriaError("Unsupported operation", op)

(* A sequence as the condition of a primitive taken as alternatives. *)
MatchOperators_sequenceAsOr(value, condition) ==
  IF IsArray(condition)
  THEN Some([j \in 1..Len(condition.kids) |-> _evaluateCondition(value, condition.kids[j])])
  ELSE LET entries == Entries(condition)
       IN Every([i \in 1..Len(entries) |->
                   _evaluateOperation(entries[i][1], value, entries[i][2])])

(* The last branch of _evaluateCondition: the condition's entries are *)
(* operators on the value, and all must hold.                         *)
MatchOperators(value, condition) ==
  LET entries == Entries(condition)
  IN Every([i \in 1..Len(entries) |->
              _evaluateOperation(entries[i][1], value, entries[i][2])])

(* The keys of the condition looked up as operators on the value. *)
MatchFields_keysAsOperators(value, condition) ==
  LET entries == Entries(condition)
  IN Every([i \in 1..Len(entries) |->
              _evaluateOperation(entries[i][1], value, entries[i][2])])

(* The branch of _evaluateCondition for a value that is an object: the    *)
(* condition's entries are fields of the value; Object.entries of null or *)
(* undefined raises a TypeError.                                          *)
MatchFields(value, condition) ==
  IF condition.t \in {"undefined", "null"} THEN TypeError
  ELSE LET entries == Entries(condition)
       IN Every([i \in 1..Len(entries) |->
            LET key == entries[i][1]
                sub == entries[i][2]
                subCondition == Get(condition, key)
            IN IF IsArray(sub)
               THEN Some([j \in 1..Len(sub.kids) |->
                            _evaluateCondition(Get(value, key), sub.kids[j])])
               ELSE _evaluateCondition(Get(value, key), subCondition)])

_evaluateCondition(value, condition) ==
  IF ~isObject(condition) /\ ~isObject(value)
  THEN Return(_comparePrimitiveValues(value, condition))
  ELSE IF IsArray(value)
  THEN Some([i \in 1..Len(value.kids) |-> _evaluateCondition(value.kids[i], condition)])
  ELSE IF isObject(value) THEN MatchFields(value, condition)
  ELSE MatchOperators(value, condition)

RECURSIVE _getValueByKey(_, _), Reduce(_, _)
(* key.split('.').reduce(..., acc): the fold over the path's parts. *)
Reduce(parts, acc) ==
  IF parts = <<>> THEN acc
  ELSE LET part == parts[1]
           next == IF IsArray(acc)
                   THEN Arr(Flat([i \in 1..Len(acc.kids) |-> _getValueByKey(acc.kids[i], part)]))
                   ELSE IF isObject(acc) THEN Get(acc, part)
                   ELSE Undefined
       IN Reduce(Tail(parts), next)

_getValueByKey(obj, key) == Reduce(Split(key), obj)

(* Every entry evaluated before the results are combined, so that a failure *)
(* of a later entry is raised even after an unsatisfied one.                *)
isEligible_eager(record, rules) ==
  IF ~isObject(record) \/ ~isObject(rules)
  THEN InvalidCriteriaError("Both cart and criteria should be objects", <<>>)
  ELSE LET entries == Entries(rules)
           results == [i \in 1..Len(entries) |->
                         _evaluateCondition(_getValueByKey(record, entries[i][1]), entries[i][2])]
       IN IF \E i \in 1..Len(results) : results[i].kind = "throw"
          THEN results[CHOOSE i \in 1..Len(results) :
                         /\ results[i].kind = "throw"
                         /\ \A j \in 1..(i - 1) : results[j].kind # "throw"]
          ELSE Every(results)

isEligible(record, rules) ==
  IF ~isObject(record) \/ ~isObject(rules)
  THEN InvalidCriteriaError("Both cart and criteria should be objects", <<>>)
  ELSE LET entries == Entries(rules)
       IN Every([i \in 1..Len(entries) |->
                   _evaluateCondition(_getValueByKey(record, entries[i][1]), entries[i][2])])

---------------------------------------------------------------------------
(* The inputs explored: records and criteria of the shapes the evaluator   *)
(* branches on.                                                            *)

Obj0 == Obj(<<>>, <<>>)
Obj1(k, v) == Obj(<<k>>, <<v>>)
Obj2(k1, v1, k2, v2) == Obj(<<k1, k2>>, <<v1, v2>>)

Nums == {Num(n) : n \in 0..MaxNum}
Dates == {Date(ms) : ms \in 0..MaxMillis}
Prims == {Undefined, Null, Bool(TRUE), Str(sRed), Str(sOne)} \cup Nums

(* Operator names that occur in conditions: the seven registered ones, one *)
(* that is not registered, and two that Object.prototype defines.          *)
OpNames == operations \cup {sFoo} \cup InheritedNames

OperandsOf(op) ==
  CASE op \in {sGt, sLt, sGte, sLte} -> Nums
    [] op = sIn -> {Num(1), Arr(<<>>), Arr(<<Num(1), Str(sRed)>>)}
    [] op \in {sAnd, sOr} ->
         {Null, Num(1), Date(0), Arr(<<>>), Arr(<<Num(1)>>), Obj0,
          Obj1(sGt, Num(0)), Obj1(sFoo, Num(1))}
    [] OTHER -> {Num(1)}

Pairs == UNION {{<<op, x>> : x \in OperandsOf(op)} : op \in OpNames}

(* Mappings of at most two {operator: operand} pairs, in both orders. *)
OperatorMaps ==
  {Obj0} \cup {Obj1(pr[1], pr[2]) : pr \in Pairs}
         \cup {Obj2(p[1][1], p[1][2], p[2][1], p[2][2]) :
                 p \in {q \in Pairs \X Pairs : q[1][1] # q[2][1]}}

(* Sequences of at most two primitives. *)
PrimArrays ==
  {Arr(<<>>)} \cup {Arr(<<x>>) : x \in Prims} \cup {Arr(<<x, y>>) : x, y \in Prims}

(* isEligible called on values of every top-level shape. *)
TopValues == Prims \cup Dates \cup {Arr(<<>>), Arr(<<Num(1)>>), Obj0, Obj1(sAge, Num(1))}
TopLevelInputs == TopValues \X TopValues

(* One field, one criteria entry on it: an equality, a sequence, an       *)
(* operator mapping, or a logical operator over an operator mapping.      *)
LeafConditions ==
  Prims \cup Dates \cup PrimArrays \cup OperatorMaps
    \cup {Obj1(op, m) : op \in {sAnd, sOr}, m \in OperatorMaps}
LeafInputs == {<<Obj1(sAge, v), Obj1(sAge, c)>> : v \in Prims \cup Dates, c \in LeafConditions}

(* A dotted path through a sequence of sub-records. *)
sItemsQty == sItems \o sDot \o sQty

RECURSIVE SeqsUpTo(_, _)
SeqsUpTo(S, n) ==
  IF n = 0 THEN {<<>>}
  ELSE LET shorter == SeqsUpTo(S, n - 1)
       IN shorter \cup {Append(q, x) : q \in shorter, x \in S}

Elements ==
  {Obj1(sQty, n) : n \in Nums} \cup {Obj1(sQty, Arr(<<Num(0), Num(1)>>)), Obj0, Num(1)}

BroadcastConditions ==
  Prims \cup {Obj1(pr[1], pr[2]) : pr \in Pairs}
        \cup {Obj1(sOr, Obj2(sGt, n, sFoo, Num(1))) : n \in Nums}

BroadcastInputs ==
  {<<Obj1(sItems, Arr(items)), Obj1(sItemsQty, c)>> :
     items \in SeqsUpTo(Elements, MaxItems), c \in BroadcastConditions}

(* A field that holds a sub-record, and a condition that is a mapping of *)
(* field names to sub-conditions, some of them sequences.                *)
SubAtoms ==
  Nums \cup {Str(sRed), Null, Obj1(sFoo, Num(1))} \cup {Obj1(sGte, n) : n \in Nums}

SubConditions ==
  SubAtoms \cup {Arr(<<>>)} \cup {Arr(<<x>>) : x \in SubAtoms}
           \cup {Arr(<<x, y>>) : x, y \in SubAtoms}

FieldNames == {sAge, sName, sGte}

SubRecords ==
  {Obj1(sAge, v) : v \in Nums} \cup {Obj2(sAge, v, sName, Str(sRed)) : v \in Nums}

NestedConditions ==
  {Null, Obj0} \cup {Obj1(k, c) : k \in FieldNames, c \in SubConditions}
    \cup {Obj2(k[1], c1, k[2], c2) :
            k \in {q \in FieldNames \X FieldNames : q[1] # q[2]}, c1, c2 \in SubAtoms}

NestedInputs == {<<Obj1(sUser, u), Obj1(sUser, c)>> : u \in SubRecords, c \in NestedConditions}

(* Two criteria entries, in both orders. *)
OrderConditions == Nums \cup {Obj1(sGt, Num(0)), Obj1(sFoo, Num(1))}

OrderInputs ==
  {<<Obj2(sAge, v, sName, w), Obj2(k[1], c1, k[2], c2)>> :
     v \in Nums, w \in Nums, k \in {<<sAge, sName>>, <<sName, sAge>>},
     c1 \in OrderConditions, c2 \in OrderConditions}

(* Paths that refer to keys the record does not have. *)
AbsentPaths == {sName, sUser \o sDot \o sAge, sAge \o sDot \o sName, sAge \o sDot, sDot}

AbsentInputs ==
  {<<Obj1(sAge, v), Obj1(path, c)>> :
     v \in Prims, path \in AbsentPaths, c \in Prims \cup {Obj1(pr[1], pr[2]) : pr \in Pairs}}

Inputs ==
  TopLevelInputs \cup LeafInputs \cup BroadcastInputs \cup NestedInputs
    \cup OrderInputs \cup AbsentInputs

---------------------------------------------------------------------------
(* The program: one call of isEligible on the chosen inputs. *)

Init ==
  /\ \E input \in Inputs : cart = input[1] /\ criteria = input[2]
  /\ pc = "call"
  /\ outcome = Pending

IsEligible ==
  /\ pc = "call"
  /\ outcome' = isEligible(cart, criteria)
  /\ pc' = "done"
  /\ UNCHANGED <<cart, criteria>>

Next == IsEligible

Spec == Init /\ [][Next]_vars

(* The calls on a field that holds a sub-record only. *)
InitNested ==
  /\ \E input \in NestedInputs : cart = input[1] /\ criteria = input[2]
  /\ pc = "call"
  /\ outcome = Pending

SpecNested == InitNested /\ [][Next]_vars

---------------------------------------------------------------------------
(* Properties *)

Done == pc = "done"

IsPrimitive(v) == v.t \in {"undefined", "null", "boolean", "number", "string"}

(* One field "age" in the record, one criteria entry on it. *)
LeafShape ==
  /\ cart.t = "object" /\ cart.keys = <<sAge>>
  /\ criteria.t = "object" /\ criteria.keys = <<sAge>>

FieldValue == cart.kids[1]
Condition == criteria.kids[1]
PrimitiveField == LeafShape /\ IsPrimitive(FieldValue)

Rejected == outcome = InvalidCriteriaError("Both cart and criteria should be objects", <<>>)

(* C1, as amended: when the record or the criteria is a primitive, null or *)
(* undefined, isEligible fails with InvalidCriteriaError and returns no    *)
(* verdict; a sequence (or a date) at the top level is not rejected, it is *)
(* evaluated like a mapping.                                               *)
C1_TopLevelCheck ==
  Done =>
    /\ (IsPrimitive(cart) \/ IsPrimitive(criteria)) => Rejected
    /\ (~IsPrimitive(cart) /\ ~IsPrimitive(criteria)) => ~Rejected

C1_Witness == Done /\ cart.t = "object" /\ criteria.t = "null" /\ Rejected

(* C1, as stated: every record or criteria that is not a mapping, a        *)
(* top-level sequence included, makes isEligible fail with InvalidCriteria.*)
C1_Original ==
  (Done /\ (IsPrimitive(cart) \/ IsArray(cart) \/ IsPrimitive(criteria) \/ IsArray(criteria)))
    => (outcome.kind = "throw" /\ outcome.name = "InvalidCriteriaError")

Unregistered(op) == op \notin operations \cup InheritedNames

EntryResult(k) == _evaluateOperation(Condition.keys[k], FieldValue, Condition.kids[k])

(* C2, as amended: when the evaluation of a leaf operator condition        *)
(* reaches an operator name that is neither registered nor inherited from  *)
(* Object.prototype (every entry before it in the condition holds),        *)
(* isEligible fails with an InvalidCriteriaError whose message names the   *)
(* operator, the same kind of error as for invalid criteria; when an entry *)
(* before it does not hold, that entry decides the outcome and the         *)
(* operator is never looked up.                                            *)
C2_UnsupportedOperator ==
  (Done /\ PrimitiveField /\ Condition.t = "object") =>
    \A k \in 1..Len(Condition.keys) :
      Unregistered(Condition.keys[k]) =>
        IF \A j \in 1..(k - 1) : EntryResult(j) = Return(TRUE)
        THEN /\ outcome.kind = "throw" /\ outcome.name = "InvalidCriteriaError"
             /\ outcome.message = "Unsupported operation"
             /\ outcome.about = Condition.keys[k]
        ELSE \E j \in 1..(k - 1) : EntryResult(j) # Return(TRUE) /\ outcome = EntryResult(j)

C2_Witness ==
  /\ Done /\ PrimitiveField /\ FieldValue = Num(1)
  /\ Condition = Obj2(sGt, Num(0), sFoo, Num(1))
  /\ outcome.kind = "throw" /\ outcome.about = sFoo

(* C2, as stated: a leaf operator condition that contains a name outside   *)
(* the registry makes isEligible fail with an error of kind                *)
(* UnsupportedOperation, distinct from InvalidCriteria, naming the name.   *)
C2_Original ==
  (Done /\ PrimitiveField /\ Condition.t = "object") =>
    \A k \in 1..Len(Condition.keys) :
      Condition.keys[k] \notin operations =>
        /\ outcome.kind = "throw"
        /\ outcome.name = "UnsupportedOperation"
        /\ outcome.name # "InvalidCriteriaError"
        /\ \E i \in 1..Len(Condition.keys) :
             Condition.keys[i] \notin operations /\ outcome.about = Condition.keys[i]

(* C3: a date in the record and a date as the condition match exactly when *)
(* their epoch millis are equal.                                           *)
C3_DateEquality ==
  (Done /\ LeafShape /\ IsDate(FieldValue) /\ IsDate(Condition))
    => outcome = Return(FieldValue.n = Condition.n)

C3_Witness ==
  Done /\ LeafShape /\ IsDate(FieldValue) /\ IsDate(Condition) /\ FieldValue.n # Condition.n

(* C4, as amended: for a field that holds a primitive and a condition that *)
(* is a sequence of primitives, isEligible returns true when the sequence  *)
(* is empty and otherwise fails with the InvalidCriteriaError for the      *)
(* unsupported operation "0" (the sequence's first index); it never        *)
(* compares the field with the elements.                                   *)
C4_SequenceCondition ==
  (Done /\ PrimitiveField /\ IsArray(Condition)) =>
    outcome = IF Condition.kids = <<>> THEN Return(TRUE)
              ELSE InvalidCriteriaError("Unsupported operation", <<"0">>)

C4_Witness ==
  /\ Done /\ PrimitiveField /\ FieldValue = Str(sRed)
  /\ Condition = Arr(<<Str(sRed), Num(1)>>)
  /\ outcome.kind = "throw"

(* C4, as stated: isEligible returns true if an element of the sequence    *)
(* equals the field's value, and false otherwise.                          *)
C4_Original ==
  (Done /\ PrimitiveField /\ IsArray(Condition)) =>
    outcome = Return(\E i \in 1..Len(Condition.kids) : LooseEquals(FieldValue, Condition.kids[i]))

(* A record {items: [...]} and one criteria entry on the path "items.qty". *)
BroadcastShape ==
  /\ cart.t = "object" /\ cart.keys = <<sItems>> /\ IsArray(cart.kids[1])
  /\ criteria.t = "object" /\ criteria.keys = <<sItemsQty>>

(* The values found at "qty" in the elements, in order: a sub-record gives *)
(* its qty, or the elements of its qty when that is a sequence; an element *)
(* that is no record gives undefined.                                      *)
RECURSIVE FoundValues(_)
FoundValues(items) ==
  IF items = <<>> THEN <<>>
  ELSE LET e == items[Len(items)]
           q == IF e.t = "object" /\ sQty \in {e.keys[i] : i \in 1..Len(e.keys)}
                THEN e.kids[CHOOSE i \in 1..Len(e.keys) : e.keys[i] = sQty]
                ELSE Undefined
       IN FoundValues(SubSeq(items, 1, Len(items) - 1))
            \o (IF q.t = "array" THEN q.kids ELSE <<q>>)

Matches(v, c) == _evaluateCondition(v, c) = Return(TRUE)
Fails(v, c) == _evaluateCondition(v, c) = Return(FALSE)

(* C5, as amended: when a dotted path passes through a sequence of         *)
(* sub-records, path resolution yields the flattened sequence of the       *)
(* values found in each element, and the criteria entry is satisfied if    *)
(* and only if one of those values matches the condition and every value   *)
(* before it is evaluated to false without failing (a failure on an        *)
(* earlier value ends the call with that failure).                         *)
C5_PathBroadcast ==
  (Done /\ BroadcastShape) =>
    LET found == FoundValues(cart.kids[1].kids)
    IN /\ _getValueByKey(cart, criteria.keys[1]) = Arr(found)
       /\ outcome = Return(TRUE) <=>
            \E i \in 1..Len(found) :
              /\ Matches(found[i], Condition)
              /\ \A j \in 1..(i - 1) : Fails(found[j], Condition)

C5_Witness ==
  /\ Done /\ BroadcastShape
  /\ cart.kids[1].kids = <<Obj1(sQty, Num(0)), Obj1(sQty, Num(MaxNum))>>
  /\ Condition = Obj1(sGte, Num(1))
  /\ outcome = Return(TRUE)

(* C5, as stated: the entry is satisfied if and only if at least one of    *)
(* the values found matches the condition.                                 *)
C5_Original ==
  (Done /\ BroadcastShape) =>
    LET found == FoundValues(cart.kids[1].kids)
    IN /\ _getValueByKey(cart, criteria.keys[1]) = Arr(found)
       /\ outcome = Return(TRUE) <=>
            \E i \in 1..Len(found) : Matches(found[i], Condition)

(* A primitive field and a condition {and: operand} or {or: operand}. *)
LogicalCase(logicalOp) ==
  Done /\ PrimitiveField /\ Condition.t = "object" /\ Condition.keys = <<logicalOp>>

Operand == Condition.kids[1]

RegisteredMap(m) == m.t = "object" /\ \A i \in 1..Len(m.keys) : m.keys[i] \in operations

PairResult(i) == _evaluateOperation(Operand.keys[i], FieldValue, Operand.kids[i])

(* C6, as amended: for a primitive value and an operand mapping of pairs   *)
(* with registered operators, `and` is true iff every pair holds; `or` is  *)
(* true iff some pair holds and every pair before it in the mapping is     *)
(* evaluated to false without failing; with an empty operand mapping `and` *)
(* yields true and `or` yields false.                                      *)
C6_LogicalOperators ==
  /\ (LogicalCase(sAnd) /\ RegisteredMap(Operand)) =>
       /\ outcome = Return(TRUE) <=>
            \A i \in 1..Len(Operand.keys) : PairResult(i) = Return(TRUE)
       /\ Operand.keys = <<>> => outcome = Return(TRUE)
  /\ (LogicalCase(sOr) /\ RegisteredMap(Operand)) =>
       /\ outcome = Return(TRUE) <=>
            \E i \in 1..Len(Operand.keys) :
              /\ PairResult(i) = Return(TRUE)
              /\ \A j \in 1..(i - 1) : PairResult(j) = Return(FALSE)
       /\ Operand.keys = <<>> => outcome = Return(FALSE)

C6_Witness ==
  /\ LogicalCase(sOr) /\ RegisteredMap(Operand) /\ Len(Operand.keys) = 2
  /\ PairResult(1) = Return(FALSE) /\ PairResult(2) = Return(TRUE)
  /\ outcome = Return(TRUE)

(* C6, as stated: `or` is true iff at least one pair holds (and `and` iff  *)
(* every pair holds).                                                      *)
C6_Original ==
  /\ (LogicalCase(sAnd) /\ RegisteredMap(Operand)) =>
       /\ outcome = Return(TRUE) <=>
            \A i \in 1..Len(Operand.keys) : PairResult(i) = Return(TRUE)
       /\ Operand.keys = <<>> => outcome = Return(TRUE)
  /\ (LogicalCase(sOr) /\ RegisteredMap(Operand)) =>
       /\ outcome = Return(TRUE) <=>
            \E i \in 1..Len(Operand.keys) : PairResult(i) = Return(TRUE)
       /\ Operand.keys = <<>> => outcome = Return(FALSE)

(* C7: on a mapping record and a mapping criteria isEligible returns a     *)
(* boolean or fails with InvalidCriteria or UnsupportedOperation, and in   *)
(* no other way.                                                           *)
C7_OnlyDocumentedFailures ==
  (Done /\ cart.t = "object" /\ criteria.t = "object") =>
    \/ outcome.kind = "return"
    \/ outcome.kind = "throw" /\ outcome.name \in {"InvalidCriteriaError", "UnsupportedOperation"}

C7_Witness ==
  /\ Done /\ cart.t = "object" /\ cart.keys = <<sUser>> /\ cart.kids[1].t = "object"
  /\ criteria = Obj1(sUser, Null)
  /\ outcome.name = "TypeError"

(* C8, as amended: an `and` or `or` evaluated with an operand that is a    *)
(* primitive, null or undefined fails with InvalidCriteriaError; with a    *)
(* non-empty sequence it fails with the InvalidCriteriaError for the       *)
(* unsupported operation "0"; with an empty sequence (or a date) it        *)
(* produces a verdict, true for `and` and false for `or`.                  *)
C8_LogicalOperand ==
  \A logicalOp \in {sAnd, sOr} :
    LogicalCase(logicalOp) =>
      /\ IsPrimitive(Operand) =>
           outcome = InvalidCriteriaError("Conditions for logical operation must be an object",
                                          logicalOp)
      /\ (IsArray(Operand) /\ Operand.kids # <<>>) =>
           outcome = InvalidCriteriaError("Unsupported operation", <<"0">>)
      /\ ((IsArray(Operand) /\ Operand.kids = <<>>) \/ IsDate(Operand)) =>
           outcome = Return(logicalOp = sAnd)

C8_Witness ==
  LogicalCase(sAnd) /\ Operand = Null /\ outcome.name = "InvalidCriteriaError"

(* C8, as stated: an operand that is a primitive, null or a sequence, the  *)
(* empty sequence included, makes the evaluation fail with InvalidCriteria.*)
C8_Original ==
  \A logicalOp \in {sAnd, sOr} :
    (LogicalCase(logicalOp) /\ (IsPrimitive(Operand) \/ IsArray(Operand))) =>
      (outcome.kind = "throw" /\ outcome.name = "InvalidCriteriaError")

(* Two entries in the criteria of a mapping record. *)
TwoEntries == cart.t = "object" /\ criteria.t = "object" /\ Len(criteria.keys) = 2

(* The same entries in the other order. *)
Swapped ==
  Obj(<<criteria.keys[2], criteria.keys[1]>>, <<criteria.kids[2], criteria.kids[1]>>)

EntryOutcome(i) ==
  _evaluateCondition(_getValueByKey(cart, criteria.keys[i]), criteria.kids[i])

(* C9, as amended: the entries of criteria are evaluated in their order    *)
(* and the first one that is unsatisfied or fails decides the outcome; the *)
(* outcome does not depend on the order when no entry fails, but an        *)
(* unsatisfied entry before a failing one gives false where the other      *)
(* order gives the failure.                                                *)
C9_EntryOrder ==
  (Done /\ TwoEntries) =>
    /\ outcome = IF EntryOutcome(1) # Return(TRUE) THEN EntryOutcome(1) ELSE EntryOutcome(2)
    /\ (EntryOutcome(1).kind = "return" /\ EntryOutcome(2).kind = "return")
         => outcome = isEligible(cart, Swapped)

C9_Witness ==
  /\ Done /\ TwoEntries
  /\ EntryOutcome(1) = Return(FALSE) /\ EntryOutcome(2).kind = "throw"
  /\ outcome = Return(FALSE)
  /\ isEligible(cart, Swapped) = EntryOutcome(2)

(* C9, as stated: two criteria with the same entries in another order give *)
(* the same outcome for the same record.                                   *)
C9_Original == (Done /\ TwoEntries) => outcome = isEligible(cart, Swapped)

(* A field "user" that holds a sub-record, and a mapping as its condition. *)
NestedShape ==
  /\ cart.t = "object" /\ cart.keys = <<sUser>> /\ cart.kids[1].t = "object"
  /\ criteria.t = "object" /\ criteria.keys = <<sUser>> /\ criteria.kids[1].t = "object"

SubRecord == cart.kids[1]
SubKeys == criteria.kids[1].keys
SubValues == criteria.kids[1].kids

(* C10, as amended: for a mapping value and a mapping condition the keys   *)
(* of the condition are field names: the condition matches iff for every   *)
(* (key, subCondition) entry, value[key] matches subCondition when it is   *)
(* not a sequence, and when it is a sequence value[key] matches one of its *)
(* elements and every element before that one is evaluated to false        *)
(* without failing.                                                        *)
C10_StructuralMatch ==
  (Done /\ NestedShape) =>
    (outcome = Return(TRUE) <=>
       \A i \in 1..Len(SubKeys) :
         LET field == Get(SubRecord, SubKeys[i])
             sub == SubValues[i]
         IN IF IsArray(sub)
            THEN \E j \in 1..Len(sub.kids) :
                   /\ Matches(field, sub.kids[j])
                   /\ \A h \in 1..(j - 1) : Fails(field, sub.kids[h])
            ELSE Matches(field, sub))

C10_Witness ==
  /\ Done /\ NestedShape
  /\ SubRecord = Obj1(sAge, Num(MaxNum))
  /\ criteria.kids[1] = Obj1(sAge, Obj1(sGte, Num(1)))
  /\ outcome = Return(TRUE)

(* C10, as stated: with a sequence as subCondition, value[key] matches at  *)
(* least one of its elements.                                              *)
C10_Original ==
  (Done /\ NestedShape) =>
    (outcome = Return(TRUE) <=>
       \A i \in 1..Len(SubKeys) :
         LET field == Get(SubRecord, SubKeys[i])
             sub == SubValues[i]
         IN IF IsArray(sub)
            THEN \E j \in 1..Len(sub.kids) : Matches(field, sub.kids[j])
            ELSE Matches(field, sub))

=============================================================================
